---- MODULE Spec2Model ----
(***************************************************************************)
(* mcp-datetime: the timezone query functions (timezone-utils.ts), the     *)
(* tool and resource handlers registered on the MCP server (server.ts in   *)
(* its two revisions) and the host Intl library they delegate to.          *)
(*                                                                         *)
(* A JavaScript string is modelled as the sequence of its characters, each *)
(* a one-character string, so that concatenation, join, split, replace,    *)
(* sort order and percent-decoding are computed as the code computes them. *)
(***************************************************************************)
EXTENDS Integers, Sequences, FiniteSets, TLC

(***************************************************************************)
(* Characters and the built-in string/array operations the code uses       *)
(***************************************************************************)

\* Printable ASCII in code-unit order: Ascii[i] has code unit 31 + i (the grave
\* accent, which a TLA+ string cannot hold, is written U+0060).
Ascii ==
  <<
     " ", "!", "\"", "#", "$", "%", "&", "'", "(", ")", "*", "+", ",", "-", ".", "/",
     "0", "1", "2", "3", "4", "5", "6", "7", "8", "9", ":", ";", "<", "=", ">", "?",
     "@", "A", "B", "C", "D", "E", "F", "G", "H", "I", "J", "K", "L", "M", "N", "O",
     "P", "Q", "R", "S", "T", "U", "V", "W", "X", "Y", "Z", "[", "\\", "]", "^", "_",
     "U+0060", "a", "b", "c", "d", "e", "f", "g", "h", "i", "j", "k", "l", "m", "n", "o",
     "p", "q", "r", "s", "t", "u", "v", "w", "x", "y", "z", "{", "|", "}", "~"
  >>

\* The UTF-16 code unit of a character.
CharCode(c) == 31 + (CHOOSE i \in 1..Len(Ascii) : Ascii[i] = c)

Range(s) == { s[i] : i \in 1..Len(s) }

\* a < b in JavaScript's string comparison: by code units, a proper prefix first.
RECURSIVE StrLessFrom(_, _, _)
StrLessFrom(a, b, i) ==
  IF i > Len(a) THEN i <= Len(b)
  ELSE IF i > Len(b) THEN FALSE
  ELSE IF a[i] = b[i] THEN StrLessFrom(a, b, i + 1)
  ELSE CharCode(a[i]) < CharCode(b[i])

StrLess(a, b) == StrLessFrom(a, b, 1)

\* Array.prototype.sort() with no comparator: ascending by string comparison.
RECURSIVE SortInsert(_, _)
SortInsert(sorted, x) ==
  IF sorted = << >> THEN << x >>
  ELSE IF StrLess(x, Head(sorted)) THEN << x >> \o sorted
  ELSE << Head(sorted) >> \o SortInsert(Tail(sorted), x)

\* A sort that was left out.
ArraySort_Unsorted(arr) == arr

RECURSIVE ArraySort(_)
ArraySort(arr) ==
  IF arr = << >> THEN << >>
  ELSE SortInsert(ArraySort(SubSeq(arr, 1, Len(arr) - 1)), arr[Len(arr)])

\* Set.prototype.add: a Set keeps insertion order and ignores a value it holds.
SetAdd(set, x) == IF x \in Range(set) THEN set ELSE Append(set, x)

\* new Set(iterable), and forEach(x => set.add(x)): add the values in order.
RECURSIVE SetAddAll(_, _)
SetAddAll(set, values) ==
  IF values = << >> THEN set
  ELSE SetAddAll(SetAdd(set, Head(values)), Tail(values))

\* Array.prototype.join(sep).
RECURSIVE Join(_, _)
Join(arr, sep) ==
  IF arr = << >> THEN << >>
  ELSE IF Len(arr) = 1 THEN arr[1]
  ELSE arr[1] \o sep \o Join(Tail(arr), sep)

\* Number to string, as a template literal renders a non-negative integer.
Digits == << "0", "1", "2", "3", "4", "5", "6", "7", "8", "9" >>

RECURSIVE NumberToString(_)
NumberToString(n) ==
  IF n < 10 THEN << Digits[n + 1] >>
  ELSE NumberToString(n \div 10) \o << Digits[(n % 10) + 1] >>

\* s has sub as a prefix at position i.
HasAt(s, sub, i) ==
  /\ i + Len(sub) - 1 <= Len(s)
  /\ \A k \in 1..Len(sub) : s[i + k - 1] = sub[k]

\* String.prototype.includes / Jest's toContain on strings.
Contains(s, sub) == \E i \in 1..(Len(s) + 1) : HasAt(s, sub, i)

\* String.prototype.indexOf, 1-based; 0 when absent.
IndexOf(s, sub) ==
  IF Contains(s, sub)
  THEN CHOOSE i \in 1..(Len(s) + 1) :
         /\ HasAt(s, sub, i)
         /\ \A j \in 1..(i - 1) : ~HasAt(s, sub, j)
  ELSE 0

\* String.prototype.replace finding nothing to replace.
Replace_Nothing(s, pattern, by) == s

\* String.prototype.replace with a string pattern: the first occurrence.
Replace(s, pattern, by) ==
  LET i == IndexOf(s, pattern)
  IN IF i = 0 THEN s
     ELSE SubSeq(s, 1, i - 1) \o by \o SubSeq(s, i + Len(pattern), Len(s))

\* String.prototype.split(sep) for a one-character separator: never empty,
\* "".split(" ") is [""].
RECURSIVE Split(_, _)
Split(s, sep) ==
  IF sep \notin Range(s) THEN << s >>
  ELSE LET i == CHOOSE k \in 1..Len(s) :
                  s[k] = sep /\ \A j \in 1..(k - 1) : s[j] # sep
       IN << SubSeq(s, 1, i - 1) >> \o Split(SubSeq(s, i + 1, Len(s)), sep)

\* Array.prototype.pop() of a non-empty array: its last element.
Pop(arr) == arr[Len(arr)]

\* x || fallback for a string x: the empty string is falsy.
OrElse(x, fallback) == IF x = << >> THEN fallback ELSE x

(***************************************************************************)
(* Percent-decoding (decodeURIComponent)                                   *)
(***************************************************************************)

HexDigits == << "0", "1", "2", "3", "4", "5", "6", "7", "8", "9",
                "A", "B", "C", "D", "E", "F" >>

IsHex(c) == \E i \in 1..Len(HexDigits) : HexDigits[i] = c \/ c \in {"a", "b", "c", "d", "e", "f"}

HexValue(c) ==
  IF c \in {"a", "b", "c", "d", "e", "f"}
  THEN 9 + (CHOOSE i \in 1..6 : << "a", "b", "c", "d", "e", "f" >>[i] = c)
  ELSE (CHOOSE i \in 1..Len(HexDigits) : HexDigits[i] = c) - 1

\* decodeURIComponent: every %XY escape of an ASCII byte becomes the character
\* it encodes (a control character is written U+CTRL); an incomplete escape,
\* or a byte of 0x80 and above that is not part of a complete UTF-8 sequence
\* (multi-byte sequences are not among the inputs), throws URIError.
\* The result is [ok |-> TRUE, val |-> decoded] or [ok |-> FALSE].
RECURSIVE DecodeFrom(_, _, _)
DecodeFrom(s, i, acc) ==
  IF i > Len(s) THEN [ok |-> TRUE, val |-> acc]
  ELSE IF s[i] # "%" THEN DecodeFrom(s, i + 1, Append(acc, s[i]))
  ELSE IF i + 2 > Len(s) \/ ~IsHex(s[i + 1]) \/ ~IsHex(s[i + 2])
       THEN [ok |-> FALSE, val |-> << >>]
  ELSE LET byte == 16 * HexValue(s[i + 1]) + HexValue(s[i + 2])
       IN IF byte > 127 THEN [ok |-> FALSE, val |-> << >>]
          ELSE IF byte < 32 \/ byte = 127
               THEN DecodeFrom(s, i + 3, Append(acc, "U+CTRL"))
          ELSE DecodeFrom(s, i + 3, Append(acc, Ascii[byte - 31]))

decodeURIComponent(s) == DecodeFrom(s, 1, << >>)

(***************************************************************************)
(* Percent-encoding (encodeURIComponent)                                   *)
(***************************************************************************)

\* The characters encodeURIComponent leaves as they are.
UriUnreserved ==
  { Ascii[i] : i \in { j \in 1..Len(Ascii) :
                         \/ CharCode(Ascii[j]) \in CharCode("0")..CharCode("9")
                         \/ CharCode(Ascii[j]) \in CharCode("A")..CharCode("Z")
                         \/ CharCode(Ascii[j]) \in CharCode("a")..CharCode("z") } }
  \cup { "-", "_", ".", "!", "~", "*", "'", "(", ")" }

\* One character written with its percent sign escaped once more.
EncodeChar_EscapedTwice(c) ==
  IF c \in UriUnreserved THEN << c >>
  ELSE << "%", "2", "5", HexDigits[(CharCode(c) \div 16) + 1],
          HexDigits[(CharCode(c) % 16) + 1] >>

\* One character as encodeURIComponent writes it: itself when unreserved,
\* else % and the two upper-case hexadecimal digits of its byte (every
\* character here is ASCII, one byte in UTF-8).
EncodeChar(c) ==
  IF c \in UriUnreserved THEN << c >>
  ELSE << "%", HexDigits[(CharCode(c) \div 16) + 1], HexDigits[(CharCode(c) % 16) + 1] >>

RECURSIVE encodeURIComponent(_)
encodeURIComponent(s) ==
  IF s = << >> THEN << >>
  ELSE EncodeChar(Head(s)) \o encodeURIComponent(Tail(s))

(***************************************************************************)
(* Timezone identifiers                                                    *)
(***************************************************************************)

UTC == <<"U","T","C">>
Europe_London == <<"E","u","r","o","p","e","/","L","o","n","d","o","n">>
Europe_Paris == <<"E","u","r","o","p","e","/","P","a","r","i","s">>
Europe_Berlin == <<"E","u","r","o","p","e","/","B","e","r","l","i","n">>
America_New_York == <<"A","m","e","r","i","c","a","/","N","e","w","_","Y","o","r","k">>
America_Chicago == <<"A","m","e","r","i","c","a","/","C","h","i","c","a","g","o">>
America_Denver == <<"A","m","e","r","i","c","a","/","D","e","n","v","e","r">>
America_Los_Angeles == <<"A","m","e","r","i","c","a","/","L","o","s","_","A","n","g","e","l","e","s">>
Asia_Tokyo == <<"A","s","i","a","/","T","o","k","y","o">>
Asia_Shanghai == <<"A","s","i","a","/","S","h","a","n","g","h","a","i">>
Asia_Kolkata == <<"A","s","i","a","/","K","o","l","k","a","t","a">>
Australia_Sydney == <<"A","u","s","t","r","a","l","i","a","/","S","y","d","n","e","y">>
Pacific_Auckland == <<"P","a","c","i","f","i","c","/","A","u","c","k","l","a","n","d">>

\* Common timezones to ensure they're always available.
COMMON_TIMEZONES ==
  << UTC, Europe_London, Europe_Paris, Europe_Berlin, America_New_York,
     America_Chicago, America_Denver, America_Los_Angeles, Asia_Tokyo,
     Asia_Shanghai, Asia_Kolkata, Australia_Sydney, Pacific_Auckland >>

\* Zones a host may know beyond the common ones: one sorting before every
\* common zone, one between them, one after them (lower case sorts last).
Africa_Cairo == <<"A","f","r","i","c","a","/","C","a","i","r","o">>
Etc_UTC == <<"E","t","c","/","U","T","C">>
posixrules == <<"p","o","s","i","x","r","u","l","e","s">>

HostOnlyZones == { Africa_Cairo, Etc_UTC, posixrules }

\* What supportedValuesOf may list: host-only zones and a zone that is also
\* in the common list.
HostListable == { Africa_Cairo, posixrules, Asia_Tokyo }

\* Identifiers no host accepts: the empty string, a made-up name, and the
\* name ICU reports when it cannot determine the system zone.
EmptyString == << >>
Invalid_Timezone == <<"I","n","v","a","l","i","d","/","T","i","m","e","z","o","n","e">>
Etc_Unknown == <<"E","t","c","/","U","n","k","n","o","w","n">>

AllZones == Range(COMMON_TIMEZONES) \cup HostOnlyZones

\* Bound: the longest list the host enumeration returns.
MaxHostZones == 2

RECURSIVE SeqsUpTo(_, _)
SeqsUpTo(S, n) ==
  IF n = 0 THEN { << >> }
  ELSE LET shorter == SeqsUpTo(S, n - 1)
       IN shorter \cup { Append(s, x) : s \in shorter, x \in S }

(***************************************************************************)
(* State                                                                   *)
(***************************************************************************)

VARIABLES
  serverBuild,   \* which revision of the server module is loaded:
                 \*   "server.ts" (src/src/server.ts, helpers inlined) or
                 \*   "part_001"  (src/unnamed/part_001, imports timezone-utils)
  tools,         \* names registered with server.tool
  resources,     \* names registered with server.resource
  enumThrows,    \* host: Intl.supportedValuesOf('timeZone') throws
  hostZones,     \* host: the list Intl.supportedValuesOf('timeZone') returns
  accepted,      \* host: identifiers Intl.DateTimeFormat accepts as timeZone;
                 \*   empty when the constructor throws on every call
  resolveThrows, \* host: Intl.DateTimeFormat().resolvedOptions() throws
  resolvedTz,    \* host: resolvedOptions().timeZone
  fmtThrows,     \* host: rendering throws although the zone is accepted
                 \*   (an option value the host does not support)
  pc,            \* "idle", "pending" (a request has arrived), "done" (it was handled)
  call,          \* the request being served: [op, arg]
  resp,          \* its outcome: [raised, fault, isError, content, value]
  diag,          \* the diagnostics it wrote: a sequence of [stream, level, msg, arg]
  sseBuild,      \* which revision of the SSE module is loaded:
                 \*   "sse.ts"   (src/src/sse.ts, with a URI prefix) or
                 \*   "part_000" (src/unnamed/part_000, without)
  launch,        \* how the process was started: [entry, argv, env, port, uriPrefix]
  proc,          \* "loaded" (modules imported, nothing started), "start",
                 \*   "stdio", "sse", "closing", "exited", "threw"
  exitCode,      \* the code the process ended with; -1 while it runs
  stdioAttached, \* server.connect(new StdioServerTransport()) has succeeded
  listener,      \* the HTTP listener: "none", "pending", "listening", "closed"
  listenPort,    \* the port given to app.listen
  routes,        \* the paths the three routes are registered at
  transport,     \* sse.ts, let transport: 0 when unset, else the number of the
                 \*   connection whose transport it holds
  connections,   \* SSE connections opened so far
  lastPost,      \* the last message posted: [from, by, fault]
  events,        \* what the process did to its transports, in order
  signals,       \* SIGINT / SIGTERM received so far
  commonTimezones \* what the array COMMON_TIMEZONES holds (a const binding, but
                 \*   a mutable array that getAvailableTimezones may hand out)

hostVars == << enumThrows, hostZones, accepted, resolveThrows, resolvedTz, fmtThrows >>
serverVars == << serverBuild, tools, resources >>
procVars == << sseBuild, launch, proc, exitCode, stdioAttached, listener, listenPort,
               routes, transport, connections, lastPost, events, signals >>
vars == << serverBuild, tools, resources, enumThrows, hostZones, accepted,
           resolveThrows, resolvedTz, fmtThrows, pc, call, resp, diag,
           sseBuild, launch, proc, exitCode, stdioAttached, listener, listenPort,
           routes, transport, connections, lastPost, events, signals,
           commonTimezones >>

(***************************************************************************)
(* The host library (Intl, Date) as the code calls it                      *)
(***************************************************************************)

\* A call's outcome: the value it returns, or a throw.
Ok(v) == [ok |-> TRUE, val |-> v]
Throws == [ok |-> FALSE, val |-> << >>]

\* Intl.supportedValuesOf('timeZone').
Intl_supportedValuesOf == IF enumThrows THEN Throws ELSE Ok(hostZones)

\* Intl.DateTimeFormat(locale, { timeZone: timezone, ... }): a RangeError for
\* an identifier the host does not accept.
Intl_DateTimeFormat(timezone) ==
  IF timezone \in accepted THEN Ok(timezone) ELSE Throws

\* Intl.DateTimeFormat().resolvedOptions().timeZone.
Intl_resolvedTimeZone == IF resolveThrows THEN Throws ELSE Ok(resolvedTz)

Part(type, value) == [type |-> type, value |-> value]

\* What the host renders for the instant of a call, one record per reading:
\*   short  formatter.format(date) with timeZoneName 'short'
\*   parts  tzFormatter.formatToParts(date)
\*   locale date.toLocaleString('en-US', { timeZone, timeZoneName: 'longOffset' })
Clocks ==
  << [ short  |-> <<"1","1","/","4","/","2","0","2","6",","," ","G","M","T","+","1">>,
       parts  |-> << Part("month", <<"1","1">>), Part("literal", <<"/">>),
                     Part("day", <<"0","4">>), Part("literal", <<"/">>),
                     Part("year", <<"2","0","2","6">>), Part("literal", <<","," ">>),
                     Part("hour", <<"0","9">>), Part("literal", <<":">>),
                     Part("minute", <<"3","0">>), Part("literal", <<":">>),
                     Part("second", <<"1","5">>), Part("literal", <<".">>),
                     Part("fractionalSecond", <<"2","5","0">>) >>,
       locale |-> <<"1","1","/","4","/","2","0","2","6",","," ","9",":","3","0",":","1","5"," ","A","M"," ","G","M","T","+","0","1",":","0","0">> ],
     [ short  |-> <<"1","1","/","4","/","2","0","2","6",","," ","U","T","C">>,
       parts  |-> << Part("month", <<"1","1">>), Part("literal", <<"/">>),
                     Part("day", <<"0","4">>), Part("literal", <<"/">>),
                     Part("year", <<"2","0","2","6">>), Part("literal", <<","," ">>),
                     Part("hour", <<"0","8">>), Part("literal", <<":">>),
                     Part("minute", <<"3","0">>), Part("literal", <<":">>),
                     Part("second", <<"1","5">>), Part("literal", <<".">>),
                     Part("fractionalSecond", <<"2","5","0">>) >>,
       locale |-> <<"1","1","/","4","/","2","0","2","6",","," ","8",":","3","0",":","1","5"," ","A","M"," ","G","M","T">> ],
     [ short  |-> <<"2","0","2","3","-","0","1","-","0","1">>,
       parts  |-> << Part("year", <<"2","0","2","3">>), Part("month", <<"0","1">>),
                     Part("day", <<"0","1">>), Part("hour", <<"1","2">>),
                     Part("minute", <<"0","0">>), Part("second", <<"0","0">>) >>,
       locale |-> <<"J","a","n","u","a","r","y"," ","1",","," ","2","0","2","3">> ],
     [ short  |-> << >>,
       parts  |-> << Part("year", <<"2","0","2","3">>), Part("month", <<"0","1">>),
                     Part("day", <<"0","1">>), Part("hour", <<"1","2">>),
                     Part("minute", <<"0","0">>), Part("second", <<"0","0">>),
                     Part("fractionalSecond", <<"1","2","3">>) >>,
       locale |-> <<"1","/","1","/","2","0","2","3",","," ","1","2",":","0","0",":","0","0"," ","P","M"," ","G","M","T","+","0","0","0","0">> ],
     [ short  |-> <<"1","/","1","/","2","0","2","3",","," ","1","2",":","0","0",":","0","0"," ","P","M"," ","G","M","T","+","0","0","0","0">>,
       parts  |-> << Part("year", <<"2","0","2","3">>), Part("month", <<"0","1">>),
                     Part("day", <<"0","1">>), Part("hour", <<"1","2">>),
                     Part("minute", <<"0","0">>), Part("second", <<"0","0">>),
                     Part("fractionalSecond", <<"1","2","3">>) >>,
       locale |-> << >> ] >>

ClockIds == 1..Len(Clocks)

\* date.toLocaleString(...) of reading c.
Date_toLocaleString(c) == IF fmtThrows THEN Throws ELSE Ok(Clocks[c].locale)

(***************************************************************************)
(* Diagnostics: console.error and console.warn both write to stderr        *)
(***************************************************************************)

ConsoleError(msg, arg) ==
  [stream |-> "stderr", level |-> "error", msg |-> msg, arg |-> arg]

\* console.warn writing to standard output, as console.log does.
ConsoleWarn_Stdout(msg, arg) ==
  [stream |-> "stdout", level |-> "warn", msg |-> msg, arg |-> arg]

ConsoleWarn(msg, arg) ==
  [stream |-> "stderr", level |-> "warn", msg |-> msg, arg |-> arg]

\* What a function hands back: its return value and what it logged.
Ret(v, d) == [val |-> v, diag |-> d]

(***************************************************************************)
(* timezone-utils.ts                                                       *)
(***************************************************************************)

\* A fallback that is sorted like the normal result.
getAvailableTimezones_SortedFallback ==
  LET listed == Intl_supportedValuesOf
  IN IF listed.ok
     THEN Ret(ArraySort(SetAddAll(SetAddAll(<< >>, listed.val), COMMON_TIMEZONES)),
              << >>)
     ELSE Ret(ArraySort(COMMON_TIMEZONES),
              << ConsoleError("Error getting timezones from Intl API:", << >>) >>)

getAvailableTimezones ==
  LET listed == Intl_supportedValuesOf
  IN IF listed.ok
     THEN LET timezones == SetAddAll(SetAddAll(<< >>, listed.val), COMMON_TIMEZONES)
          IN Ret(ArraySort(timezones), << >>)
     ELSE Ret(COMMON_TIMEZONES,
              << ConsoleError("Error getting timezones from Intl API:", << >>) >>)

getFormattedTimezoneList(prefix) ==
  LET timezones == getAvailableTimezones
  IN Ret(prefix \o <<" ","(">> \o NumberToString(Len(timezones.val)) \o <<")",":"," ">>
           \o Join(timezones.val, <<","," ">>),
         timezones.diag)

\* A validity check that only rejects the empty string.
isValidTimezone_NonEmpty(timezone) == timezone # << >>

isValidTimezone(timezone) == Intl_DateTimeFormat(timezone).ok

\* The resolved zone returned without validating it.
getCurrentTimezone_Unchecked ==
  LET resolved == Intl_resolvedTimeZone
  IN IF ~resolved.ok
     THEN Ret(UTC, << ConsoleError("Error getting current timezone:", << >>) >>)
     ELSE Ret(resolved.val, << >>)

getCurrentTimezone ==
  LET resolved == Intl_resolvedTimeZone
  IN IF ~resolved.ok
     THEN Ret(UTC, << ConsoleError("Error getting current timezone:", << >>) >>)
     ELSE IF isValidTimezone(resolved.val)
     THEN Ret(resolved.val, << >>)
     ELSE Ret(UTC, << ConsoleWarn("System timezone is not valid, falling back to UTC",
                                  resolved.val) >>)

\* dateParts[part.type] = part.value for every part that is not a literal; a
\* later part of the same type overwrites an earlier one.
DatePart(parts, type) ==
  LET at == { i \in 1..Len(parts) : parts[i].type = type /\ type # "literal" }
  IN IF at = { } THEN [present |-> FALSE, value |-> << >>]
     ELSE [present |-> TRUE,
           value |-> parts[CHOOSE i \in at : \A j \in at : j <= i].value]

\* ${dateParts.x} in a template literal: a missing key renders "undefined".
Render(part) == IF part.present THEN part.value ELSE <<"u","n","d","e","f","i","n","e","d">>

InvalidTimezoneText == <<"I","n","v","a","l","i","d"," ","t","i","m","e","z","o","n","e">>

\* The error string of the earlier revision, which names the identifier.
FormatFailure_OldErrorString(timezone) ==
  Ret(<<"E","r","r","o","r",":"," ","I","n","v","a","l","i","d"," ","t","i","m","e","z","o","n","e"," ">> \o timezone,
      << ConsoleError("Error formatting time for timezone", timezone) >>)

\* The catch block of getCurrentTimeInTimezone.
FormatFailure(timezone) ==
  Ret(InvalidTimezoneText,
      << ConsoleError("Error formatting time for timezone", timezone) >>)

getCurrentTimeInTimezone(timezone, c) ==
  LET failed == FormatFailure(timezone)
      formatter == Intl_DateTimeFormat(timezone)
      timezonePart == OrElse(Pop(Split(Clocks[c].short, " ")), << >>)
      tzFormatter == Intl_DateTimeFormat(timezone)
      parts == Clocks[c].parts
      fractionalSecond == DatePart(parts, "fractionalSecond")
      isoDate == Render(DatePart(parts, "year")) \o <<"-">>
                 \o Render(DatePart(parts, "month")) \o <<"-">>
                 \o Render(DatePart(parts, "day")) \o <<"T">>
                 \o Render(DatePart(parts, "hour")) \o <<":">>
                 \o Render(DatePart(parts, "minute")) \o <<":">>
                 \o Render(DatePart(parts, "second")) \o <<".">>
                 \o (IF fractionalSecond.present
                     THEN OrElse(fractionalSecond.value, <<"0","0","0">>)
                     ELSE <<"0","0","0">>)
      localized == Date_toLocaleString(c)
      tzOffset == OrElse(Pop(Split(localized.val, " ")), << >>)
  IN IF ~formatter.ok \/ ~tzFormatter.ok \/ ~localized.ok
     THEN failed
     ELSE Ret(isoDate \o Replace(tzOffset, <<"G","M","T">>, << >>), << >>)

(***************************************************************************)
(* server.ts: the handlers registered on the MCP server                    *)
(***************************************************************************)

\* Outcomes of a handler or function call.
Returned(v) ==
  [raised |-> FALSE, fault |-> << >>, isError |-> FALSE, content |-> << >>, value |-> v]

ToolResult(text, isError) ==
  [raised |-> FALSE, fault |-> << >>, isError |-> isError,
   content |-> << [type |-> "text", text |-> text] >>, value |-> << >>]

ResourceResult(uri, text) ==
  [raised |-> FALSE, fault |-> << >>, isError |-> FALSE,
   content |-> << [uri |-> uri, text |-> text, mimeType |-> "text/plain"] >>,
   value |-> << >>]

Raised(message) ==
  [raised |-> TRUE, fault |-> message, isError |-> FALSE, content |-> << >>,
   value |-> << >>]

\* A handler hands back its outcome and what it logged.
Done(outcome, d) == [resp |-> outcome, diag |-> d]

HostErrorMessage == <<"h","o","s","t"," ","e","r","r","o","r">>
UriMalformedMessage == <<"U","R","I"," ","m","a","l","f","o","r","m","e","d">>

\* The names each revision passes to server.tool and server.resource.
RegisteredTools(build) ==
  IF build = "part_001"
  THEN { "get-current-time", "get-current-timezone", "get-time-in-timezone",
         "list-timezones" }
  ELSE { "get-current-time", "get-time-in-timezone", "list-timezones" }

RegisteredResources(build) == { "datetime-template", "datetime-list" }

\* The address each registered resource answers.
ResourceAddress(name) ==
  IF name = "datetime-template" THEN "datetime://{timezone}" ELSE "datetime://list"

\* Tool get-current-time.
get_current_time(c) ==
  IF serverBuild = "part_001"
  THEN LET timezone == getCurrentTimezone
           time == getCurrentTimeInTimezone(timezone.val, c)
       IN Done(ToolResult(<<"T","h","e"," ","c","u","r","r","e","n","t"," ","t","i","m","e"," ","i","s"," ">> \o time.val, FALSE),
               timezone.diag \o time.diag)
  ELSE LET resolved == Intl_resolvedTimeZone
           time == getCurrentTimeInTimezone(resolved.val, c)
       IN IF ~resolved.ok THEN Done(Raised(HostErrorMessage), << >>)
          ELSE Done(ToolResult(<<"T","h","e"," ","c","u","r","r","e","n","t"," ","t","i","m","e"," ","i","s"," ">> \o time.val, FALSE), time.diag)

\* Tool get-current-timezone (part_001 only).
get_current_timezone ==
  LET timezone == getCurrentTimezone
  IN Done(ToolResult(<<"T","h","e"," ","c","u","r","r","e","n","t"," ","s","y","s","t","e","m"," ","t","i","m","e","z","o","n","e"," ","i","s"," ">> \o timezone.val, FALSE),
          timezone.diag)

\* The tool without its validity check.
get_time_in_timezone_NoValidation(timezone, c) ==
  LET time == getCurrentTimeInTimezone(timezone, c)
  IN Done(ToolResult(<<"T","h","e"," ","c","u","r","r","e","n","t"," ","t","i","m","e"," ","i","n"," ">> \o timezone \o <<" ","i","s"," ">> \o time.val, FALSE),
          time.diag)

\* Tool get-time-in-timezone.
get_time_in_timezone(timezone, c) ==
  IF ~isValidTimezone(timezone)
  THEN Done(ToolResult(<<"E","r","r","o","r",":"," ","I","n","v","a","l","i","d"," ","t","i","m","e","z","o","n","e"," ","\"">> \o timezone
                       \o <<"\"","."," ","U","s","e"," ","t","h","e"," ","\"","l","i","s","t","-","t","i","m","e","z","o","n","e","s","\""," ","t","o","o","l"," ","t","o"," ","s","e","e"," ","a","v","a","i","l","a","b","l","e"," ","o","p","t","i","o","n","s",".">>,
                       TRUE),
            << >>)
  ELSE LET time == getCurrentTimeInTimezone(timezone, c)
       IN Done(ToolResult(<<"T","h","e"," ","c","u","r","r","e","n","t"," ","t","i","m","e"," ","i","n"," ">> \o timezone \o <<" ","i","s"," ">> \o time.val,
                          FALSE),
               time.diag)

\* Tool list-timezones.
list_timezones ==
  IF serverBuild = "part_001"
  THEN LET list == getFormattedTimezoneList(<<"A","v","a","i","l","a","b","l","e"," ","t","i","m","e","z","o","n","e","s">>)
       IN Done(ToolResult(list.val, FALSE), list.diag)
  ELSE LET timezones == getAvailableTimezones
       IN Done(ToolResult(<<"A","v","a","i","l","a","b","l","e"," ","t","i","m","e","z","o","n","e","s"," ","(">>
                          \o NumberToString(Len(timezones.val)) \o <<")",":"," ">>
                          \o Join(timezones.val, <<",">>),
                          FALSE),
               timezones.diag)

\* The read callback using the variable as it arrives, not decoded.
datetime_template_NoDecode(encodedTimezone, c) ==
  LET timezone == encodedTimezone
      formattedTime == getCurrentTimeInTimezone(timezone, c)
  IN IF timezone = << >> \/ ~isValidTimezone(timezone)
     THEN Done(Raised(<<"I","n","v","a","l","i","d"," ","t","i","m","e","z","o","n","e",":"," ">> \o timezone), << >>)
     ELSE Done(ResourceResult(<<"d","a","t","e","t","i","m","e",":","/","/">> \o timezone,
                              <<"C","u","r","r","e","n","t"," ","t","i","m","e"," ","i","n"," ">> \o timezone \o <<":"," ">>
                              \o formattedTime.val),
               formattedTime.diag)

\* Resource datetime-template: the read callback, given variables.timezone.
datetime_template(encodedTimezone, c) ==
  LET decoded == decodeURIComponent(encodedTimezone)
      timezone == decoded.val
      href == decodeURIComponent(<<"d","a","t","e","t","i","m","e",":","/","/">> \o encodedTimezone)
      formattedTime == getCurrentTimeInTimezone(timezone, c)
  IN IF ~decoded.ok THEN Done(Raised(UriMalformedMessage), << >>)
     ELSE IF timezone = << >> \/ ~isValidTimezone(timezone)
     THEN Done(Raised(<<"I","n","v","a","l","i","d"," ","t","i","m","e","z","o","n","e",":"," ">> \o timezone), << >>)
     ELSE IF ~href.ok THEN Done(Raised(UriMalformedMessage), formattedTime.diag)
     ELSE Done(ResourceResult(href.val,
                              <<"C","u","r","r","e","n","t"," ","t","i","m","e"," ","i","n"," ">> \o timezone \o <<":"," ">>
                              \o formattedTime.val),
               formattedTime.diag)

\* The listing resource rendering the common list instead of every zone.
datetime_list_CommonOnly ==
  Done(ResourceResult(<<"d","a","t","e","t","i","m","e",":","/","/","l","i","s","t">>,
                      <<"A","l","l"," ","a","v","a","i","l","a","b","l","e"," ","t","i","m","e","z","o","n","e","s"," ","(">>
                      \o NumberToString(Len(COMMON_TIMEZONES)) \o <<")",":"," ">>
                      \o Join(COMMON_TIMEZONES, <<","," ">>)),
       << >>)

\* Resource datetime-list.
datetime_list ==
  IF serverBuild = "part_001"
  THEN LET list == getFormattedTimezoneList(<<"A","l","l"," ","a","v","a","i","l","a","b","l","e"," ","t","i","m","e","z","o","n","e","s">>)
       IN Done(ResourceResult(<<"d","a","t","e","t","i","m","e",":","/","/","l","i","s","t">>, list.val), list.diag)
  ELSE LET allTimezones == getAvailableTimezones
           timezoneList == Join(allTimezones.val, <<","," ">>)
       IN Done(ResourceResult(<<"d","a","t","e","t","i","m","e",":","/","/","l","i","s","t">>,
                              <<"A","l","l"," ","a","v","a","i","l","a","b","l","e"," ","t","i","m","e","z","o","n","e","s"," ","(">>
                              \o NumberToString(Len(allTimezones.val)) \o <<")",":"," ">>
                              \o timezoneList),
               allTimezones.diag)

\* One entry of the listing the template's list callback returns.
ListEntry(timezone) ==
  [uri |-> <<"d","a","t","e","t","i","m","e",":","/","/">> \o encodeURIComponent(timezone),
   name |-> <<"C","u","r","r","e","n","t"," ","t","i","m","e"," ","i","n"," ">> \o timezone,
   description |-> <<"G","e","t"," ","t","h","e"," ","c","u","r","r","e","n","t"," ","t","i","m","e"," ","i","n"," ","t","h","e"," ">> \o timezone \o <<" ","t","i","m","e","z","o","n","e">>,
   mimeType |-> "text/plain"]

\* The list callback enumerating every zone the host knows.
datetime_template_list_AllZones ==
  LET all == getAvailableTimezones
  IN Done(Returned([i \in 1..Len(all.val) |-> ListEntry(all.val[i])]), all.diag)

\* The list callback of the resource template datetime://{timezone}: the
\* resources a client is offered when it lists resources.
datetime_template_list ==
  Done(Returned([i \in 1..Len(COMMON_TIMEZONES) |-> ListEntry(COMMON_TIMEZONES[i])]),
       << >>)

\* The value the template datetime://{timezone} binds to its variable when
\* it matches the address uri: what follows the scheme, as written.
TemplateVariable(uri) == SubSeq(uri, Len(<<"d","a","t","e","t","i","m","e",":","/","/">>) + 1, Len(uri))

\* The variable values of the addresses the list callback offers.
ListedIds ==
  { TemplateVariable(datetime_template_list.resp.value[i].uri) :
      i \in 1..Len(datetime_template_list.resp.value) }

\* The list callbacks registered along with the resources.
ListCallbacks(registered) ==
  IF "datetime-template" \in registered THEN { "datetime-template/list" } ELSE { }

(***************************************************************************)
(* index.ts and sse.ts: process start, transports, routes, shutdown        *)
(***************************************************************************)

\* A value that may be undefined: an absent argument or environment variable.
Undefined == [set |-> FALSE, val |-> << >>]
Some(v) == [set |-> TRUE, val |-> v]

\* A JavaScript number as parseInt yields it: an integer or NaN.
NaN == [nan |-> TRUE, n |-> 0]
Num(n) == [nan |-> FALSE, n |-> n]

DigitValue(c) == (CHOOSE i \in 1..Len(Digits) : Digits[i] = c) - 1

\* The value of the longest prefix of decimal digits of s, most significant
\* digit first; acc is the value read so far.
RECURSIVE DigitsPrefixValue(_, _)
DigitsPrefixValue(s, acc) ==
  IF s = << >> \/ Head(s) \notin Range(Digits) THEN acc
  ELSE DigitsPrefixValue(Tail(s), 10 * acc + DigitValue(Head(s)))

RECURSIVE TrimStart(_)
TrimStart(s) ==
  IF s # << >> /\ Head(s) = " " THEN TrimStart(Tail(s)) ELSE s

\* parseInt(s, 10): leading blanks are skipped, a sign is read, then the
\* longest run of decimal digits; NaN when there is no digit.
parseInt(s) ==
  LET t == TrimStart(s)
      negative == t # << >> /\ Head(t) = "-"
      body == IF t # << >> /\ Head(t) \in { "-", "+" } THEN Tail(t) ELSE t
  IN IF body = << >> \/ Head(body) \notin Range(Digits) THEN NaN
     ELSE IF negative THEN Num(0 - DigitsPrefixValue(body, 0))
     ELSE Num(DigitsPrefixValue(body, 0))

\* String.prototype.startsWith.
StartsWith(s, prefix) == HasAt(s, prefix, 1)

\* Array.prototype.includes.
Includes(arr, x) == \E i \in 1..Len(arr) : arr[i] = x

\* Array.prototype.find with the predicate arg.startsWith(prefix): the first
\* such element, or undefined.
FindStartingWith(arr, prefix) ==
  IF \E i \in 1..Len(arr) : StartsWith(arr[i], prefix)
  THEN Some(arr[CHOOSE i \in 1..Len(arr) :
                  /\ StartsWith(arr[i], prefix)
                  /\ \A j \in 1..(i - 1) : ~StartsWith(arr[j], prefix)])
  ELSE Undefined

\* The port used when none is given.
DefaultPortNumber == 3000

\* process.env.PORT ? parseInt(process.env.PORT, 10) : 3000 (an empty
\* string is falsy).
DefaultPort(env) ==
  IF env.PORT.set /\ env.PORT.val # << >> THEN parseInt(env.PORT.val)
  ELSE Num(DefaultPortNumber)

\* index.ts, the port main computes, with the environment taking precedence
\* over the command line.
MainPort_EnvFirst(argv, env) ==
  LET portArg == FindStartingWith(argv, <<"-","-","p","o","r","t","=">>)
  IN IF env.PORT.set /\ env.PORT.val # << >> THEN parseInt(env.PORT.val)
     ELSE IF portArg.set THEN parseInt(Split(portArg.val, "=")[2])
     ELSE Num(DefaultPortNumber)

\* index.ts, the port main computes from the command line and environment.
MainPort(argv, env) ==
  LET portArg == FindStartingWith(argv, <<"-","-","p","o","r","t","=">>)
      defaultPort == DefaultPort(env)
  IN IF portArg.set THEN parseInt(Split(portArg.val, "=")[2]) ELSE defaultPort

\* uriPrefix.replace(/\/+$/, ''): the trailing slashes removed.
RECURSIVE StripTrailingSlashes(_)
StripTrailingSlashes(s) ==
  IF s # << >> /\ s[Len(s)] = "/" THEN StripTrailingSlashes(SubSeq(s, 1, Len(s) - 1))
  ELSE s

\* sse.ts, the prefix with a leading slash added and nothing removed.
NormalizedPrefix_KeepTrailing(uriPrefix) ==
  IF uriPrefix # << >>
  THEN IF StartsWith(uriPrefix, <<"/">>) THEN uriPrefix ELSE <<"/">> \o uriPrefix
  ELSE << >>

\* sse.ts: the normalized URI prefix.
NormalizedPrefix(uriPrefix) ==
  IF uriPrefix # << >>
  THEN StripTrailingSlashes(IF StartsWith(uriPrefix, <<"/">>) THEN uriPrefix
                            ELSE <<"/">> \o uriPrefix)
  ELSE << >>

\* The paths startSSEServer registers its three routes at. The older
\* revision (src/unnamed/part_000) has no prefix parameter.
RoutePaths(build, uriPrefix) ==
  IF build = "sse.ts"
  THEN LET normalizedPrefix == NormalizedPrefix(uriPrefix)
       IN [sse |-> normalizedPrefix \o <<"/","s","s","e">>,
           message |-> normalizedPrefix \o <<"/","m","e","s","s","a","g","e">>,
           info |-> normalizedPrefix \o <<"/","i","n","f","o">>]
  ELSE [sse |-> <<"/","s","s","e">>, message |-> <<"/","m","e","s","s","a","g","e">>, info |-> <<"/","i","n","f","o">>]

\* The body the info route answers with.
InfoDescriptor(build, paths) ==
  IF build = "sse.ts"
  THEN [name |-> <<"M","C","P"," ","D","a","t","e","T","i","m","e"," ","S","e","r","v","e","r">>, version |-> <<"0",".","1",".","0">>, transport |-> <<"S","S","E">>,
        endpoints |-> [sse |-> paths.sse, message |-> paths.message,
                       info |-> paths.info]]
  ELSE [name |-> <<"M","C","P"," ","D","a","t","e","T","i","m","e"," ","S","e","r","v","e","r">>, version |-> <<"0",".","1",".","0">>, transport |-> <<"S","S","E">>,
        endpoints |-> [sse |-> <<"/","s","s","e">>, message |-> <<"/","m","e","s","s","a","g","e">>]]

\* app.listen(port) throws at once (ERR_SOCKET_BAD_PORT) when the port is
\* not an integer of 0..65535.
ListenThrows(port) == port.nan \/ port.n < 0 \/ port.n > 65535

\* The transport the message route hands a message to, were each client
\* served by the transport of its own connection.
MessageTarget_OwnTransport(current, from) == from

\* The transport the message route hands a message to: the one the variable
\* holds, whoever posts.
MessageTarget(current, from) == current

\* What cleanup does, closing the protocol server whether or not a transport
\* was ever opened.
CleanupEffects_AlwaysClose(current) == << "httpServer.close", "server.close" >>

\* What cleanup does: the listener is closed, then the protocol server when
\* the transport variable is set.
CleanupEffects(current) ==
  << "httpServer.close" >> \o (IF current # 0 THEN << "server.close" >> ELSE << >>)

(***************************************************************************)
(* Inputs of a process start                                               *)
(***************************************************************************)

\* Values of --port= and of PORT: a numeral, a numeral followed by other
\* characters, nothing, a number that is no port.
PortTexts == { <<"8","0","8","0">>, <<"8","0","x">>, << >>, <<"7","0","0","0","0">> }

PortArgs == { << <<"-","-","p","o","r","t","=">> \o t >> : t \in PortTexts }
            \cup { << <<"-","-","p","o","r","t","=","8","0","8","0">>, <<"-","-","p","o","r","t","=","9","0","9","0">> >>, << >> }

PrefixArgs == { << <<"-","-","p","r","e","f","i","x","=","/","a","p","i","/","d","a","t","e","t","i","m","e">> >>, << >> }

\* Command lines (after the node binary and the script path).
Argvs ==
  { sse \o port \o prefix : sse \in { << <<"-","-","s","s","e">> >>, << >> },
                            port \in PortArgs, prefix \in PrefixArgs }
  \cup { << <<"-","-","s","s","e","=","1">> >> }

Envs ==
  [ PORT : { Undefined, Some(<<"4","0","0","0">>), Some(<< >>) },
    URI_PREFIX : { Undefined, Some(<<"/","t","z">>) } ]

\* Prefixes a caller of startSSEServer passes.
UriPrefixes ==
  { << >>, <<"/">>, <<"/","/">>, <<"a","p","i">>, <<"/","a","p","i">>, <<"a","p","i","/">>, <<"/","a","p","i","/","d","a","t","e","t","i","m","e","/">>, <<"/","a","p","i","/","/">> }

\* Ports a caller of startSSEServer passes; undefined selects the default.
PortParams == { Undefined, Some(Num(8080)) }

\* How the process was started: by index.ts (main), or by a program that
\* imports sse.ts and calls startSSEServer itself.
NoLaunch ==
  [entry |-> "none", argv |-> << >>, env |-> [PORT |-> Undefined, URI_PREFIX |-> Undefined],
   port |-> Undefined, uriPrefix |-> << >>]

Launches(build) ==
  { [entry |-> "main", argv |-> a, env |-> e, port |-> Undefined, uriPrefix |-> << >>] :
      a \in Argvs, e \in Envs }
  \cup
  { [entry |-> "startSSEServer", argv |-> << >>,
     env |-> [PORT |-> ep, URI_PREFIX |-> Undefined], port |-> p, uriPrefix |-> u] :
      ep \in { Undefined, Some(<<"4","0","0","0">>) }, p \in PortParams,
      u \in IF build = "sse.ts" THEN UriPrefixes ELSE { << >> } }

MaxConnections == 2
MaxSignals == 2

NoRoutes == [sse |-> << >>, message |-> << >>, info |-> << >>]
NoPost == [from |-> 0, by |-> 0, fault |-> FALSE]

(***************************************************************************)
(* Inputs                                                                  *)
(***************************************************************************)

\* Identifiers a caller passes.
RequestIds ==
  { UTC, America_New_York, Pacific_Auckland, Etc_UTC, Invalid_Timezone, EmptyString }

\* Values of the {timezone} variable of a datetime:// address.
EncodedIds ==
  { <<"U","T","C">>, <<"A","m","e","r","i","c","a","%","2","F","N","e","w","_","Y","o","r","k">>, <<"P","a","c","i","f","i","c","%","2","f","A","u","c","k","l","a","n","d">>, <<"I","n","v","a","l","i","d","%","2","F","Z","o","n","e">>,
    <<"N","o","t","/","A","Z","o","n","e">>, EmptyString, <<"%">>, <<"U","T","C","%","2">>, <<"%","E","0">> }

\* The timezone databases a host may have: every zone, or every zone but
\* one of the common ones; none when the formatter constructor is failing.
HostDatabases == { AllZones, AllZones \ { Pacific_Auckland }, { } }

\* What the host may resolve as the system zone.
ResolvableIds == { UTC, Europe_Paris, Etc_Unknown }

(***************************************************************************)
(* The state machine                                                       *)
(***************************************************************************)

NoCall == [op |-> "none", arg |-> << >>]
NoResp == Returned(<< >>)

\* The exported functions of timezone-utils.ts a caller may invoke directly.
Functions ==
  { "getAvailableTimezones", "isValidTimezone", "getCurrentTimezone",
    "getCurrentTimeInTimezone" }

\* The arguments an operation is invoked with.
ArgsOf(op) ==
  IF op \in { "isValidTimezone", "getCurrentTimeInTimezone", "get-time-in-timezone" }
  THEN RequestIds
  ELSE IF op = "datetime-template" THEN EncodedIds \cup ListedIds
  ELSE { << >> }

Init ==
  /\ serverBuild \in { "server.ts", "part_001" }
  /\ tools = RegisteredTools(serverBuild)
  /\ resources = RegisteredResources(serverBuild)
  /\ enumThrows \in BOOLEAN
  /\ hostZones \in SeqsUpTo(HostListable, MaxHostZones)
  /\ enumThrows => hostZones = << >>
  /\ accepted \in HostDatabases
  /\ resolveThrows \in BOOLEAN
  /\ accepted = { } => resolveThrows
  /\ resolvedTz \in ResolvableIds
  /\ resolveThrows => resolvedTz = UTC
  /\ fmtThrows \in BOOLEAN
  /\ pc = "idle"
  /\ call = NoCall
  /\ resp = NoResp
  /\ diag = << >>
  /\ sseBuild = "sse.ts"
  /\ launch = NoLaunch
  /\ proc = "loaded"
  /\ exitCode = -1
  /\ stdioAttached = FALSE
  /\ listener = "none"
  /\ listenPort = NaN
  /\ routes = NoRoutes
  /\ transport = 0
  /\ connections = 0
  /\ lastPost = NoPost
  /\ events = << >>
  /\ signals = 0
  /\ commonTimezones = COMMON_TIMEZONES

\* A request arrives: a call of an exported function, of a registered tool,
\* or a read of a registered resource. Requests are served one at a time: a
\* handler has no await before its return, so it runs to completion. The
\* requests are those made of the loaded modules; what a started process
\* does with its transports is the process machine below.
Receive ==
  /\ proc = "loaded"
  /\ pc = "idle"
  /\ \E op \in Functions \cup tools \cup resources \cup ListCallbacks(resources) :
       \E arg \in ArgsOf(op) : call' = [op |-> op, arg |-> arg]
  /\ pc' = "pending"
  /\ UNCHANGED << serverVars, hostVars, procVars, resp, diag, commonTimezones >>

\* The pending request is for op.
Pending(op) == pc = "pending" /\ call.op = op

\* What the array holds after op, were the listing sorted where it is: on
\* the fallback path the listing is the array itself.
CommonTimezonesAfter_SortedInPlace(op, list) ==
  IF op \in { "getAvailableTimezones", "list-timezones", "datetime-list" }
  THEN ArraySort(list)
  ELSE list

\* What the array COMMON_TIMEZONES holds after the operation op: what it
\* held before. The code reads it (forEach, map, return) and sorts only the
\* copy Array.from makes.
CommonTimezonesAfter(op, list) == list

\* Record the outcome of the pending operation and its diagnostics; nothing
\* else of the program's state is written.
Finish(done) ==
  /\ resp' = done.resp
  /\ diag' = done.diag
  /\ commonTimezones' = CommonTimezonesAfter(call.op, commonTimezones)
  /\ pc' = "done"
  /\ UNCHANGED << serverVars, hostVars, procVars, call >>

CallGetAvailableTimezones ==
  /\ Pending("getAvailableTimezones")
  /\ LET r == getAvailableTimezones
     IN Finish(Done(Returned(r.val), r.diag))

CallIsValidTimezone ==
  /\ Pending("isValidTimezone")
  /\ Finish(Done(Returned(isValidTimezone(call.arg)), << >>))

CallGetCurrentTimezone ==
  /\ Pending("getCurrentTimezone")
  /\ LET r == getCurrentTimezone
     IN Finish(Done(Returned(r.val), r.diag))

CallGetCurrentTimeInTimezone ==
  /\ Pending("getCurrentTimeInTimezone")
  /\ \E c \in ClockIds :
       LET r == getCurrentTimeInTimezone(call.arg, c)
       IN Finish(Done(Returned(r.val), r.diag))

ToolGetCurrentTime ==
  /\ Pending("get-current-time")
  /\ \E c \in ClockIds : Finish(get_current_time(c))

ToolGetCurrentTimezone ==
  /\ Pending("get-current-timezone")
  /\ Finish(get_current_timezone)

ToolGetTimeInTimezone ==
  /\ Pending("get-time-in-timezone")
  /\ \E c \in ClockIds : Finish(get_time_in_timezone(call.arg, c))

ToolListTimezones ==
  /\ Pending("list-timezones")
  /\ Finish(list_timezones)

ReadDatetimeTemplate ==
  /\ Pending("datetime-template")
  /\ \E c \in ClockIds : Finish(datetime_template(call.arg, c))

ReadDatetimeList ==
  /\ Pending("datetime-list")
  /\ Finish(datetime_list)

ListDatetimeTemplate ==
  /\ Pending("datetime-template/list")
  /\ Finish(datetime_template_list)

\* The outcome has been delivered to the caller; the next request may arrive.
Complete ==
  /\ pc = "done"
  /\ pc' = "idle"
  /\ call' = NoCall
  /\ resp' = NoResp
  /\ diag' = << >>
  /\ UNCHANGED << serverVars, hostVars, procVars, commonTimezones >>

Next ==
  \/ Receive
  \/ CallGetAvailableTimezones
  \/ CallIsValidTimezone
  \/ CallGetCurrentTimezone
  \/ CallGetCurrentTimeInTimezone
  \/ ToolGetCurrentTime
  \/ ToolGetCurrentTimezone
  \/ ToolGetTimeInTimezone
  \/ ToolListTimezones
  \/ ReadDatetimeTemplate
  \/ ReadDatetimeList
  \/ ListDatetimeTemplate
  \/ Complete

Spec == Init /\ [][Next]_vars

(***************************************************************************)
(* The process: start, transports, routes, shutdown                        *)
(***************************************************************************)

\* The state in which the process machine starts: a standard host, nothing
\* run yet, any command line and environment.
InitProc ==
  /\ serverBuild \in { "server.ts", "part_001" }
  /\ tools = RegisteredTools(serverBuild)
  /\ resources = RegisteredResources(serverBuild)
  /\ enumThrows = FALSE
  /\ hostZones = << >>
  /\ accepted = AllZones
  /\ resolveThrows = FALSE
  /\ resolvedTz = UTC
  /\ fmtThrows = FALSE
  /\ pc = "idle"
  /\ call = NoCall
  /\ resp = NoResp
  /\ diag = << >>
  /\ sseBuild \in { "sse.ts", "part_000" }
  /\ launch \in Launches(sseBuild)
  /\ proc = "start"
  /\ exitCode = -1
  /\ stdioAttached = FALSE
  /\ listener = "none"
  /\ listenPort = NaN
  /\ routes = NoRoutes
  /\ transport = 0
  /\ connections = 0
  /\ lastPost = NoPost
  /\ events = << >>
  /\ signals = 0
  /\ commonTimezones = COMMON_TIMEZONES

\* A step of the process machine: the event is recorded as the call, with
\* the answer it produced (if any) and the diagnostics it wrote.
Step(op, outcome, d) ==
  /\ call' = [op |-> op, arg |-> << >>]
  /\ resp' = outcome
  /\ diag' = d
  /\ UNCHANGED << serverVars, hostVars, pc, sseBuild, launch, commonTimezones >>

\* index.ts, the catch block of main, leaving with exit code 0.
MainCatch_ExitZero(error) ==
  [diag |-> << ConsoleError("Error starting MCP DateTime server:", error) >>,
   exitCode |-> 0]

\* index.ts, the catch block of main.
MainCatch(error) ==
  [diag |-> << ConsoleError("Error starting MCP DateTime server:", error) >>,
   exitCode |-> 1]

\* What the runtime does with an error nobody handles (an 'error' event
\* without listener, a rejected promise nobody awaits): it writes the error
\* to stderr and ends the process with code 1.
Uncaught(error) ==
  [diag |-> << [stream |-> "stderr", level |-> "uncaught", msg |-> "Uncaught",
                arg |-> error] >>,
   exitCode |-> 1]

\* The lines the listen callback writes.
ListeningLog(build, port, paths) ==
  IF build = "sse.ts"
  THEN << ConsoleError("MCP DateTime server listening on port", NumberToString(port.n)),
          ConsoleError("URI prefix:", OrElse(NormalizedPrefix(launch.uriPrefix), <<"/">>)),
          ConsoleError("SSE endpoint:", paths.sse),
          ConsoleError("Message endpoint:", paths.message),
          ConsoleError("Info endpoint:", paths.info) >>
  ELSE << ConsoleError("MCP DateTime server listening on port", NumberToString(port.n)),
          ConsoleError("SSE endpoint:", paths.sse),
          ConsoleError("Message endpoint:", paths.message) >>

\* startSSEServer(port, uriPrefix) up to its return: the routes are
\* registered and app.listen is called, which throws for a bad port.
startSSEServer(port, uriPrefix) ==
  LET effectivePort == IF port.set THEN port.val ELSE DefaultPort(launch.env)
  IN IF ListenThrows(effectivePort)
     THEN [ok |-> FALSE, port |-> effectivePort, paths |-> NoRoutes]
     ELSE [ok |-> TRUE, port |-> effectivePort, paths |-> RoutePaths(sseBuild, uriPrefix)]

\* index.ts, main with the SSE transport selected whatever the command line.
UseSSE_Always(argv) == TRUE

\* index.ts: whether main selects the SSE transport.
UseSSE(argv) == Includes(argv, <<"-","-","s","s","e">>)

\* index.ts: main. Without --sse the stdio transport is attached (which may
\* fail); with it startSSEServer(port) is called and the signal handlers
\* are installed. A throw is caught, logged, and ends the process.
Main ==
  /\ proc = "start"
  /\ launch.entry = "main"
  /\ LET started == ConsoleError("Starting MCP DateTime server...", << >>)
         port == MainPort(launch.argv, launch.env)
     IN IF UseSSE(launch.argv)
        THEN LET sse == startSSEServer(Some(port), << >>)
                 announce == ConsoleError("Starting MCP DateTime server with SSE transport on port",
                                          IF port.nan THEN <<"N","a","N">>
                                          ELSE IF port.n < 0 THEN <<"-">> \o NumberToString(0 - port.n)
                                          ELSE NumberToString(port.n))
             IN IF sse.ok
                THEN /\ proc' = "sse"
                     /\ listener' = "pending"
                     /\ listenPort' = sse.port
                     /\ routes' = sse.paths
                     /\ events' = Append(events, "listen")
                     /\ Step("main", NoResp, << started, announce >>)
                     /\ UNCHANGED << exitCode, stdioAttached, transport, connections,
                                     lastPost, signals >>
                ELSE LET failed == MainCatch(<<"E","R","R","_","S","O","C","K","E","T","_","B","A","D","_","P","O","R","T">>)
                     IN /\ proc' = "exited"
                        /\ exitCode' = failed.exitCode
                        /\ events' = events \o << "listen throws", "exit" >>
                        /\ Step("main", Raised(<<"E","R","R","_","S","O","C","K","E","T","_","B","A","D","_","P","O","R","T">>),
                                << started, announce >> \o failed.diag)
                        /\ UNCHANGED << stdioAttached, listener, listenPort, routes,
                                        transport, connections, lastPost, signals >>
        ELSE \E connectFails \in BOOLEAN :
               IF connectFails
               THEN LET failed == MainCatch(<<"c","o","n","n","e","c","t"," ","f","a","i","l","e","d">>)
                    IN /\ proc' = "exited"
                       /\ exitCode' = failed.exitCode
                       /\ events' = events \o << "stdio connect throws", "exit" >>
                       /\ Step("main", Raised(<<"c","o","n","n","e","c","t"," ","f","a","i","l","e","d">>),
                               << started >> \o failed.diag)
                       /\ UNCHANGED << stdioAttached, listener, listenPort, routes,
                                       transport, connections, lastPost, signals >>
               ELSE /\ proc' = "stdio"
                    /\ stdioAttached' = TRUE
                    /\ events' = Append(events, "stdio connect")
                    /\ Step("main", NoResp,
                            << started,
                               ConsoleError("MCP DateTime server connected to stdio transport",
                                            << >>) >>)
                    /\ UNCHANGED << exitCode, listener, listenPort, routes, transport,
                                    connections, lastPost, signals >>

\* sse.ts: startSSEServer called by a program that imports it. A throw of
\* app.listen reaches that caller; no signal handler is installed.
CallStartSSEServer ==
  /\ proc = "start"
  /\ launch.entry = "startSSEServer"
  /\ LET sse == startSSEServer(launch.port, launch.uriPrefix)
     IN IF sse.ok
        THEN /\ proc' = "sse"
             /\ listener' = "pending"
             /\ listenPort' = sse.port
             /\ routes' = sse.paths
             /\ events' = Append(events, "listen")
             /\ Step("startSSEServer", NoResp, << >>)
             /\ UNCHANGED << exitCode, stdioAttached, transport, connections,
                             lastPost, signals >>
        ELSE /\ proc' = "threw"
             /\ events' = Append(events, "listen throws")
             /\ Step("startSSEServer", Raised(<<"E","R","R","_","S","O","C","K","E","T","_","B","A","D","_","P","O","R","T">>), << >>)
             /\ UNCHANGED << exitCode, stdioAttached, listener, listenPort, routes,
                             transport, connections, lastPost, signals >>

\* sse.ts: the callback of app.listen, once the port is bound.
Listening ==
  /\ proc = "sse"
  /\ listener = "pending"
  /\ listener' = "listening"
  /\ Step("listening", NoResp, ListeningLog(sseBuild, listenPort, routes))
  /\ UNCHANGED << proc, exitCode, stdioAttached, listenPort, routes, transport,
                  connections, lastPost, events, signals >>

\* The port cannot be bound (it is in use, or privileged): the listener
\* emits 'error', for which the code installs no handler.
ListenError ==
  /\ proc = "sse"
  /\ listener = "pending"
  /\ LET failed == Uncaught(<<"E","A","D","D","R","I","N","U","S","E">>)
     IN /\ proc' = "exited"
        /\ exitCode' = failed.exitCode
        /\ listener' = "closed"
        /\ events' = events \o << "listen error", "exit" >>
        /\ Step("listen error", Raised(<<"E","A","D","D","R","I","N","U","S","E">>), failed.diag)
  /\ UNCHANGED << stdioAttached, listenPort, routes, transport, connections,
                  lastPost, signals >>

\* sse.ts: GET on the SSE path. A new transport replaces the one held.
SseConnection ==
  /\ proc = "sse"
  /\ listener = "listening"
  /\ connections < MaxConnections
  /\ connections' = connections + 1
  /\ transport' = connections + 1
  /\ Step("GET sse", NoResp, << ConsoleError("Received SSE connection", << >>) >>)
  /\ UNCHANGED << proc, exitCode, stdioAttached, listener, listenPort, routes,
                  lastPost, events, signals >>

\* sse.ts: POST on the message path by the client of connection from (0: a
\* client that opened none). With no transport held the handler's promise
\* rejects (TypeError) and nobody handles it: depending on the runtime
\* version the process goes on, or ends.
MessagePost ==
  /\ proc \in { "sse", "closing" }
  /\ listener \in { "listening", "closed" }
  /\ \E from \in 0..connections :
       LET received == ConsoleError("Received message", << >>)
       IN IF transport # 0
          THEN /\ lastPost' = [from |-> from, by |-> MessageTarget(transport, from),
                               fault |-> FALSE]
               /\ Step("POST message", NoResp, << received >>)
               /\ UNCHANGED << proc, exitCode, events >>
          ELSE /\ lastPost' = [from |-> from, by |-> 0, fault |-> TRUE]
               /\ \E fatal \in BOOLEAN :
                    LET failed == Uncaught(<<"T","y","p","e","E","r","r","o","r">>)
                    IN IF fatal
                       THEN /\ proc' = "exited"
                            /\ exitCode' = failed.exitCode
                            /\ events' = Append(events, "exit")
                            /\ Step("POST message", Raised(<<"T","y","p","e","E","r","r","o","r">>),
                                    << received >> \o failed.diag)
                       ELSE /\ Step("POST message", Raised(<<"T","y","p","e","E","r","r","o","r">>),
                                    << received >> \o failed.diag)
                            /\ UNCHANGED << proc, exitCode, events >>
  /\ UNCHANGED << stdioAttached, listener, listenPort, routes, transport,
                  connections, signals >>

\* sse.ts: GET on the info path.
InfoGet ==
  /\ proc = "sse"
  /\ listener = "listening"
  /\ Step("GET info", Returned(InfoDescriptor(sseBuild, routes)), << >>)
  /\ UNCHANGED << proc, exitCode, stdioAttached, listener, listenPort, routes,
                  transport, connections, lastPost, events, signals >>

\* index.ts: the SIGINT / SIGTERM handler up to its await: cleanup() runs.
Signal ==
  /\ launch.entry = "main"
  /\ proc \in { "sse", "closing" }
  /\ signals < MaxSignals
  /\ \E sig \in { "SIGINT", "SIGTERM" } :
       Step(sig, NoResp,
            << ConsoleError("Received signal, shutting down...", << sig >>),
               ConsoleError("Closing SSE server...", << >>) >>)
  /\ signals' = signals + 1
  /\ proc' = "closing"
  /\ listener' = "closed"
  /\ events' = events \o CleanupEffects(transport)
  /\ UNCHANGED << exitCode, stdioAttached, listenPort, routes, transport,
                  connections, lastPost >>

\* index.ts: the handler after cleanup() has settled: process.exit(0).
ExitAfterCleanup ==
  /\ proc = "closing"
  /\ proc' = "exited"
  /\ exitCode' = 0
  /\ events' = Append(events, "exit")
  /\ Step("exit", NoResp, << >>)
  /\ UNCHANGED << stdioAttached, listener, listenPort, routes, transport,
                  connections, lastPost, signals >>

\* In stdio mode no handler is installed: a signal ends the process with the
\* runtime's code for it.
KilledBySignal ==
  /\ proc = "stdio"
  /\ proc' = "exited"
  /\ \E code \in { 130, 143 } : exitCode' = code
  /\ events' = Append(events, "killed")
  /\ Step("signal", NoResp, << >>)
  /\ UNCHANGED << stdioAttached, listener, listenPort, routes, transport,
                  connections, lastPost, signals >>

NextProc ==
  \/ Main
  \/ CallStartSSEServer
  \/ Listening
  \/ ListenError
  \/ SseConnection
  \/ MessagePost
  \/ InfoGet
  \/ Signal
  \/ ExitAfterCleanup
  \/ KilledBySignal

SpecProc == InitProc /\ [][NextProc]_vars

\* Both machines: requests served by the loaded modules, and the process.
InitAll == Init \/ InitProc
NextAll == Next \/ NextProc
SpecAll == InitAll /\ [][NextAll]_vars


(***************************************************************************)
(* Properties                                                              *)
(***************************************************************************)

\* The operation op has just been executed.
Executed(op) == pc = "done" /\ call.op = op

\* The text of the single content item of the response.
ResponseText == resp.content[1].text

SortedAscending(list) ==
  \A i \in 1..(Len(list) - 1) : ~StrLess(list[i + 1], list[i])

NoDuplicates(list) ==
  \A i, j \in 1..Len(list) : i # j => list[i] # list[j]

\* C1: whenever the host enumeration succeeds, getAvailableTimezones returns
\* without raising a list that is sorted ascending (by code units), holds no
\* identifier twice, and holds every entry of COMMON_TIMEZONES.
C1_SortedDistinctSuperset ==
  (Executed("getAvailableTimezones") /\ Intl_supportedValuesOf.ok) =>
    /\ ~resp.raised
    /\ SortedAscending(resp.value)
    /\ NoDuplicates(resp.value)
    /\ Range(COMMON_TIMEZONES) \subseteq Range(resp.value)
    /\ Range(hostZones) \subseteq Range(resp.value)

\* C1 witness: the host listed two zones out of order, one sorting before and
\* one after every common zone, and the call returned all fifteen.
C1_Witness ==
  /\ Executed("getAvailableTimezones")
  /\ ~enumThrows
  /\ hostZones = << posixrules, Africa_Cairo >>
  /\ Len(resp.value) = Len(COMMON_TIMEZONES) + Len(hostZones)
  /\ resp.value[1] = Africa_Cairo

\* C2: when the host enumeration throws, getAvailableTimezones does not raise
\* and returns exactly COMMON_TIMEZONES, in its original (unsorted) order, and
\* logs the failure.
C2_FallbackIsCommonList ==
  (Executed("getAvailableTimezones") /\ ~Intl_supportedValuesOf.ok) =>
    /\ ~resp.raised
    /\ resp.value = COMMON_TIMEZONES
    /\ Len(diag) = 1

\* C2 witness: the enumeration threw and the call returned a list that starts
\* with "UTC", which a sorted list would not.
C2_Witness ==
  /\ Executed("getAvailableTimezones")
  /\ enumThrows
  /\ resp.value[1] = UTC
  /\ ~SortedAscending(resp.value)

\* C3: isValidTimezone(id) never raises and is true exactly when the host
\* accepts id as the timeZone of a date formatter; for the empty string it is
\* false.
C3_ValidIffHostAccepts ==
  Executed("isValidTimezone") =>
    /\ ~resp.raised
    /\ resp.value = Intl_DateTimeFormat(call.arg).ok
    /\ (call.arg = EmptyString => resp.value = FALSE)

\* C3 witness: the empty string was checked on a host whose formatter works,
\* and was rejected.
C3_Witness ==
  /\ Executed("isValidTimezone")
  /\ call.arg = EmptyString
  /\ UTC \in accepted
  /\ resp.value = FALSE

\* C4 as stated: getCurrentTimezone never raises and always returns a value
\* for which isValidTimezone is true.
C4_AlwaysValid ==
  Executed("getCurrentTimezone") =>
    /\ ~resp.raised
    /\ isValidTimezone(resp.value)

\* C4, amended: getCurrentTimezone never raises; it returns the host's
\* resolved identifier, logging nothing, when resolution succeeds and the
\* identifier is valid, and otherwise logs one diagnostic and returns "UTC";
\* the value it returns passes isValidTimezone whenever "UTC" does.
C4_ValidOrUtcFallback ==
  Executed("getCurrentTimezone") =>
    /\ ~resp.raised
    /\ IF Intl_resolvedTimeZone.ok /\ Intl_DateTimeFormat(resolvedTz).ok
       THEN resp.value = resolvedTz /\ diag = << >>
       ELSE resp.value = UTC /\ Len(diag) = 1
    /\ (Intl_DateTimeFormat(UTC).ok => Intl_DateTimeFormat(resp.value).ok)

\* C4 witness: the host resolved an identifier it does not itself accept, and
\* the call warned and returned "UTC".
C4_Witness ==
  /\ Executed("getCurrentTimezone")
  /\ ~resolveThrows
  /\ resolvedTz = Etc_Unknown
  /\ resp.value = UTC
  /\ Len(diag) = 1
  /\ diag[1].level = "warn"

\* C5: for every id on which the host formatter fails (the id is not
\* accepted, or the host throws while rendering), getCurrentTimeInTimezone
\* does not raise, returns "Invalid timezone" and logs exactly one diagnostic.
C5_FailureIsFixedString ==
  (Executed("getCurrentTimeInTimezone")
     /\ (~Intl_DateTimeFormat(call.arg).ok \/ \A c \in ClockIds : ~Date_toLocaleString(c).ok)) =>
    /\ ~resp.raised
    /\ resp.value = InvalidTimezoneText
    /\ Len(diag) = 1

\* C5 witness: a zone the host accepts, with rendering throwing, gave the
\* error string.
C5_Witness ==
  /\ Executed("getCurrentTimeInTimezone")
  /\ call.arg = UTC
  /\ UTC \in accepted
  /\ fmtThrows
  /\ resp.value = InvalidTimezoneText
  /\ Len(diag) = 1

StripLeadingSpace(s) == IF s # << >> /\ s[1] = " " THEN Tail(s) ELSE s

ListingOf(text) ==
  LET open == IndexOf(text, <<"(">>)
      close == IndexOf(text, <<")",":"," ">>)
      items == Split(SubSeq(text, close + 3, Len(text)), ",")
  IN [count |-> SubSeq(text, open + 1, close - 1),
      items |-> [i \in 1..Len(items) |-> StripLeadingSpace(items[i])]]

C9_NoErrorPath ==
  (Executed("get-current-time") \/ Executed("get-current-timezone")) =>
    /\ ~resp.raised
    /\ ~resp.isError
    /\ Len(resp.content) = 1

\* C10 as stated: the registered tools are exactly get-current-time,
\* get-current-timezone, get-time-in-timezone and list-timezones, and the
\* registered resources answer exactly datetime://{timezone} and
\* datetime://list.
C10_Surface ==
  /\ tools = { "get-current-time", "get-current-timezone", "get-time-in-timezone",
               "list-timezones" }
  /\ { ResourceAddress(r) : r \in resources }
       = { "datetime://{timezone}", "datetime://list" }

\* C11: the enumeration callback of the parametrized resource returns, for
\* every host state, exactly one entry per entry of COMMON_TIMEZONES, in the
\* same order, whose address is datetime:// followed by the percent-encoded
\* identifier; identifiers only the host knows do not appear.
C11_ListIsCommonListEncoded ==
  Executed("datetime-template/list") =>
    /\ ~resp.raised
    /\ Len(resp.value) = Len(COMMON_TIMEZONES)
    /\ \A i \in 1..Len(COMMON_TIMEZONES) :
         /\ resp.value[i].uri = <<"d","a","t","e","t","i","m","e",":","/","/">> \o encodeURIComponent(COMMON_TIMEZONES[i])
         /\ decodeURIComponent(encodeURIComponent(COMMON_TIMEZONES[i])).val
              = COMMON_TIMEZONES[i]

\* The callback ran on a host that knows a zone outside the common list, and
\* the entry of America/New_York carries the escaped slash.
C11_Witness ==
  /\ Executed("datetime-template/list")
  /\ ~enumThrows
  /\ \E i \in 1..Len(hostZones) : hostZones[i] \in HostOnlyZones
  /\ resp.value[5].uri = <<"d","a","t","e","t","i","m","e",":","/","/","A","m","e","r","i","c","a","%","2","F","N","e","w","_","Y","o","r","k">>

\* The process machine has just taken the step op.
Did(op) == call.op = op

Happened(e) == \E i \in 1..Len(events) : events[i] = e

\* C12: in SSE mode only the most recently opened transport is kept, and the
\* message route hands every posted message to it: after connections 1 and
\* 2 were opened, a message posted by the client of connection 1 is handled
\* by the transport of connection 2.
C12_LatestTransportHandles ==
  /\ transport = connections
  /\ (Did("POST message") /\ ~lastPost.fault) => lastPost.by = connections

\* The client of the first connection posted after a second one was opened,
\* and the second connection's transport handled it.
C12_Witness ==
  /\ Did("POST message")
  /\ connections = 2
  /\ lastPost.from = 1
  /\ lastPost.by = 2

\* The steps by which a transport is started.
TransportStarts == { i \in 1..Len(events) : events[i] \in { "stdio connect", "listen" } }

\* C13: main starts exactly one transport, chosen by the presence of --sse
\* on the command line: the stdio transport is attached or the HTTP listener
\* is started, never both, and no later event starts the other.
C13_OneModeFromFlag ==
  launch.entry = "main" =>
    /\ ~(stdioAttached /\ listener # "none")
    /\ Cardinality(TransportStarts) <= 1
    /\ proc \in { "stdio", "sse", "closing" } => Cardinality(TransportStarts) = 1
    /\ stdioAttached <=> Happened("stdio connect")
    /\ listener # "none" <=> Happened("listen")
    /\ stdioAttached => ~Includes(launch.argv, <<"-","-","s","s","e">>)
    /\ listener # "none" => Includes(launch.argv, <<"-","-","s","s","e">>)

\* Started with --sse, the process is still in SSE mode, and only in it,
\* after two connections were opened.
C13_Witness ==
  /\ launch.entry = "main"
  /\ Includes(launch.argv, <<"-","-","s","s","e">>)
  /\ listener = "listening"
  /\ connections = 2
  /\ ~stdioAttached

\* The text after --port= of the first such argument.
PortArgText(argv) ==
  LET arg == FindStartingWith(argv, <<"-","-","p","o","r","t","=">>)
  IN SubSeq(arg.val, Len(<<"-","-","p","o","r","t","=">>) + 1, Len(arg.val))

PortEnvSet(env) == env.PORT.set /\ env.PORT.val # << >>

\* C14: in SSE mode the port given to the listener is the number of the
\* first --port=<N> argument when there is one, else the number in the PORT
\* environment variable when it is set (to a non-empty value), else 3000;
\* startSSEServer called without a port uses PORT, else 3000.
C14_PortPrecedence ==
  /\ (launch.entry = "main" /\ listener # "none") =>
       LET arg == FindStartingWith(launch.argv, <<"-","-","p","o","r","t","=">>)
       IN /\ arg.set => listenPort = parseInt(PortArgText(launch.argv))
          /\ (arg.set /\ arg.val = <<"-","-","p","o","r","t","=","8","0","8","0">>) => listenPort = Num(8080)
          /\ (~arg.set /\ PortEnvSet(launch.env)) => listenPort = parseInt(launch.env.PORT.val)
          /\ (~arg.set /\ launch.env.PORT = Some(<<"4","0","0","0">>)) => listenPort = Num(4000)
          /\ (~arg.set /\ ~launch.env.PORT.set) => listenPort = Num(3000)
  /\ (launch.entry = "startSSEServer" /\ listener # "none") =>
       /\ launch.port.set => listenPort = launch.port.val
       /\ (~launch.port.set /\ launch.env.PORT = Some(<<"4","0","0","0">>)) => listenPort = Num(4000)
       /\ (~launch.port.set /\ ~launch.env.PORT.set) => listenPort = Num(3000)

\* Both --port=8080 and PORT=4000 were given, and the server listens on 8080.
C14_Witness ==
  /\ launch.entry = "main"
  /\ listener = "listening"
  /\ Includes(launch.argv, <<"-","-","p","o","r","t","=","8","0","8","0">>)
  /\ launch.env.PORT = Some(<<"4","0","0","0">>)
  /\ listenPort = Num(8080)

\* The prefix the three routes are registered under, when they share one.
RegisteredPrefix ==
  SubSeq(routes.sse, 1, Len(routes.sse) - Len(<<"/","s","s","e">>))

RoutesUnder(prefix) ==
  routes = [sse |-> prefix \o <<"/","s","s","e">>, message |-> prefix \o <<"/","m","e","s","s","a","g","e">>,
            info |-> prefix \o <<"/","i","n","f","o">>]

OnlySlashes(s) == \A i \in 1..Len(s) : s[i] = "/"

RequestedPrefix ==
  LET arg == FindStartingWith(launch.argv, <<"-","-","p","r","e","f","i","x","=">>)
  IN IF arg.set THEN Some(SubSeq(arg.val, Len(<<"-","-","p","r","e","f","i","x","=">>) + 1, Len(arg.val)))
     ELSE launch.env.URI_PREFIX

\* C16: started in SSE mode with --prefix=<P> on the command line or with
\* URI_PREFIX in the environment, the process serves its three endpoints
\* under that prefix.
C16_PrefixFromCommandLine ==
  (launch.entry = "main" /\ listener # "none" /\ RequestedPrefix.set) =>
    /\ RequestedPrefix.val # << >> => RegisteredPrefix # << >>
    /\ RoutesUnder(StripTrailingSlashes(RequestedPrefix.val))

\* C17: the info route answers with a descriptor of four fields (name,
\* version, transport, endpoints) whose endpoints are sse, message and info,
\* each the path its route is registered at.
C17_InfoListsRegisteredPaths ==
  Did("GET info") =>
    /\ DOMAIN resp.value = { "name", "version", "transport", "endpoints" }
    /\ DOMAIN resp.value.endpoints = { "sse", "message", "info" }
    /\ resp.value.endpoints = routes

\* C18: in SSE mode, on SIGINT or SIGTERM the handler first closes the HTTP
\* listener, then closes the protocol server if and only if the transport
\* variable is set, and the process exits with code 0 only after that.
C18_ShutdownOrder ==
  (launch.entry = "main" /\ Happened("listen")) =>
    /\ signals > 0 => Happened("httpServer.close") /\ listener = "closed"
    /\ \A i \in 1..Len(events) :
         events[i] = "server.close" => (i > 1 /\ events[i - 1] = "httpServer.close")
    /\ signals > 0 => (Happened("server.close") <=> transport # 0)
    /\ signals = 0 => ~Happened("httpServer.close") /\ ~Happened("server.close")
    /\ exitCode = 0 =>
         /\ signals > 0
         /\ events[Len(events)] = "exit"
         /\ \A i \in 1..(Len(events) - 1) : events[i] # "exit"
    /\ Did("exit") => exitCode = 0

\* The process exited with code 0 after closing the listener and, a
\* transport being held, the protocol server.
C18_Witness ==
  /\ launch.entry = "main"
  /\ proc = "exited"
  /\ exitCode = 0
  /\ transport # 0
  /\ events = << "listen", "httpServer.close", "server.close", "exit" >>

StartupFailed ==
  Happened("stdio connect throws") \/ Happened("listen throws") \/ Happened("listen error")

\* C19: when main cannot start its transport (attaching the stdio transport
\* fails, or the HTTP listener cannot be started) the failure is written to
\* the diagnostic stream and the process ends with a non-zero exit code.
C19_StartupFailureFatal ==
  (launch.entry = "main" /\ StartupFailed) =>
    /\ proc = "exited"
    /\ exitCode > 0
    /\ resp.raised
    /\ \E i \in 1..Len(diag) : diag[i].stream = "stderr" /\ diag[i].arg = resp.fault

\* The port was in use: the process ended with code 1.
C19_Witness ==
  /\ launch.entry = "main"
  /\ Happened("listen error")
  /\ proc = "exited"
  /\ exitCode = 1

\* C20: every diagnostic any operation writes (query functions, tool and
\* resource handlers, SSE routes, start, shutdown) goes to the error stream;
\* none goes to standard output, the protocol channel of stdio mode.
C20_DiagnosticsOnStderr ==
  \A i \in 1..Len(diag) : diag[i].stream = "stderr"

\* getCurrentTimezone has warned about a zone the host resolved and does not
\* accept.
C20_Witness ==
  /\ Executed("getCurrentTimezone")
  /\ \E i \in 1..Len(diag) : diag[i].level = "warn" /\ diag[i].stream = "stderr"

\* A tool invocation, a resource read or a call of an exported function is
\* being carried out in this step.
HandlerStep == pc = "pending" /\ pc' = "done"

\* C21: request handling is stateless. No step changes what the array
\* COMMON_TIMEZONES holds or which tools and resources are registered; a
\* tool invocation or resource read changes nothing of the program's state,
\* the transport reference included; and the transport reference is written
\* only by the SSE-connection route.
C21_RequestsLeaveStateUnchanged ==
  [][ /\ commonTimezones' = commonTimezones
      /\ tools' = tools
      /\ resources' = resources
      /\ HandlerStep => UNCHANGED << serverVars, procVars >>
      /\ transport' # transport => call'.op = "GET sse" ]_vars

\* The listing tool has run on the fallback path, where the listing is the
\* array itself, and the array still holds the list in its declared order.
C21_Witness ==
  /\ Executed("list-timezones")
  /\ enumThrows
  /\ commonTimezones = COMMON_TIMEZONES
  /\ tools = RegisteredTools(serverBuild)
  /\ transport = 0

IsDigits(s) == \A i \in 1..Len(s) : s[i] \in Range(Digits)

\* s begins with a timestamp laid out YYYY-MM-DDTHH:MM:SS.fff.
HasTimestampLayout(s) ==
  /\ Len(s) >= 23
  /\ IsDigits(SubSeq(s, 1, 4)) /\ s[5] = "-"
  /\ IsDigits(SubSeq(s, 6, 7)) /\ s[8] = "-"
  /\ IsDigits(SubSeq(s, 9, 10)) /\ s[11] = "T"
  /\ IsDigits(SubSeq(s, 12, 13)) /\ s[14] = ":"
  /\ IsDigits(SubSeq(s, 15, 16)) /\ s[17] = ":"
  /\ IsDigits(SubSeq(s, 18, 19)) /\ s[20] = "."
  /\ IsDigits(SubSeq(s, 21, 23))

\* The value of the host's part of the given type in reading c.
HostPart(c, type) ==
  LET i == CHOOSE k \in 1..Len(Clocks[c].parts) : Clocks[c].parts[k].type = type
  IN Clocks[c].parts[i].value

HostSupplies(c, type) ==
  \E k \in 1..Len(Clocks[c].parts) : Clocks[c].parts[k].type = type

\* The last blank-separated word of the host's long-offset rendering.
HostOffsetWord(c) ==
  LET text == Clocks[c].locale
      blanks == { i \in 1..Len(text) : text[i] = " " }
      last == IF blanks = { } THEN 0 ELSE CHOOSE i \in blanks : \A j \in blanks : j <= i
  IN SubSeq(text, last + 1, Len(text))

\* That word with its first GMT taken out.
HostOffsetWithoutGMT(c) ==
  LET word == HostOffsetWord(c)
      at == { k \in 1..Len(word) : HasAt(word, <<"G","M","T">>, k) }
      first == CHOOSE k \in at : \A j \in at : k <= j
  IN IF at = { } THEN word
     ELSE SubSeq(word, 1, first - 1) \o SubSeq(word, first + 3, Len(word))

C23_SuccessHoldsTimestamp ==
  ((Executed("get-time-in-timezone") \/ Executed("datetime-template"))
     /\ ~resp.raised /\ ~resp.isError) =>
    /\ ~Contains(ResponseText, InvalidTimezoneText)
    /\ diag = << >>

\* C24: a POST on the message route that arrives before any SSE connection
\* was opened is forwarded to no transport and is answered without a fault:
\* nothing is raised and the process goes on.
C24_PostBeforeConnectionAnswered ==
  (Did("POST message") /\ connections = 0) =>
    /\ lastPost.by = 0
    /\ ~lastPost.fault
    /\ ~resp.raised
    /\ proc # "exited"

\* The entries of the enumeration whose address binds the variable to arg.
ListedAs(arg) ==
  { i \in 1..Len(datetime_template_list.resp.value) :
      TemplateVariable(datetime_template_list.resp.value[i].uri) = arg }

\* C25: reading the address of any entry the enumeration callback returns
\* decodes to exactly the COMMON_TIMEZONES identifier the entry was built
\* from, and when the host accepts that identifier the read raises no fault
\* and its content names the identifier.
C25_ListedAddressReadsBack ==
  (Executed("datetime-template") /\ call.arg \in ListedIds) =>
    \E i \in ListedAs(call.arg) :
      /\ \A j \in ListedAs(call.arg) : j = i
      /\ decodeURIComponent(call.arg) = [ok |-> TRUE, val |-> COMMON_TIMEZONES[i]]
      /\ COMMON_TIMEZONES[i] \in accepted =>
           /\ ~resp.raised
           /\ StartsWith(ResponseText,
                         <<"C","u","r","r","e","n","t"," ","t","i","m","e"," ","i","n"," ">> \o COMMON_TIMEZONES[i] \o <<":"," ">>)
      /\ COMMON_TIMEZONES[i] \notin accepted => resp.raised

\* The address listed for Asia/Kolkata was read on a host that accepts it.
C25_Witness ==
  /\ Executed("datetime-template")
  /\ call.arg = <<"A","s","i","a","%","2","F","K","o","l","k","a","t","a">>
  /\ Asia_Kolkata \in accepted
  /\ ~resp.raised
  /\ StartsWith(ResponseText, <<"C","u","r","r","e","n","t"," ","t","i","m","e"," ","i","n"," ","A","s","i","a","/","K","o","l","k","a","t","a",":"," ">>)

====
